---- MODULE Spec2Model ----
(***************************************************************************)
(* The AlertsList component of                                             *)
(* x-pack/plugins/triggers_actions_ui/.../alerts_list/components/          *)
(* alerts_list.tsx as a state machine.                                     *)
(*                                                                         *)
(* The state is the component's useState cells.  A render closes over the  *)
(* values the cells have at that render; an asynchronous continuation (the *)
(* code after an await) and a callback a collaborator calls once its own   *)
(* asynchronous work is over run with the closure of the render that       *)
(* started them, not with the cells' current values.  Each in-flight       *)
(* request therefore carries the closure it was issued from.               *)
(***************************************************************************)
EXTENDS Naturals, Sequences, FiniteSets

VARIABLES
  canExecuteActions,   \* hasExecuteActionsCapability(capabilities), line 70
  mounted,             \* have the mount effects run
  actionTypes,         \* useState, line 72
  selectedIds,         \* useState, line 73
  isPerformingAction,  \* useState, line 74
  page,                \* useState, line 75
  searchText,          \* useState, line 76: <<>> is undefined, <<s>> the string s
  inputText,           \* useState, line 77: <<>> is undefined, <<s>> the string s
  typesFilter,         \* useState, line 78
  actionTypesFilter,   \* useState, line 79
  alertTypesState,     \* useState, line 81
  alertsState,         \* useState, line 86
  alertsToDelete,      \* useState, line 91
  typesInFlight,       \* loadAlertTypes calls not yet answered, each with its closure
  actionTypesInFlight, \* number of loadActionTypes calls not yet answered
  inFlight,            \* loadAlerts calls not yet answered, oldest first
  collab,              \* a collaborator's asynchronous operation under way, with its closure
  loadAlertTypesCalls, \* loadAlertTypes calls made since construction
  loadActionTypesCalls,\* loadActionTypes calls made since construction
  last,                \* what the last step did: the handler, the loadAlerts calls, the toasts
  interactions,        \* how many times the user has acted on the view
  cvIn,                \* the alerts and the index handed to convertAlertsToTableItems
  cvOut                \* its result, once it has been applied

compVars == <<canExecuteActions, mounted, actionTypes, selectedIds, isPerformingAction,
              page, searchText, inputText, typesFilter, actionTypesFilter,
              alertTypesState, alertsState, alertsToDelete, typesInFlight,
              actionTypesInFlight, inFlight, collab, loadAlertTypesCalls,
              loadActionTypesCalls, last, interactions>>

pureVars == <<cvIn, cvOut>>

vars == <<compVars, pureVars>>

-----------------------------------------------------------------------------
(* Bounds and program constants *)

MaxInteractions == 3

MaxAlerts == 2

ENTER_KEY == 13

DEFAULT_SEARCH_PAGE_SIZE == 10

ALERTS_FEATURE_ID == "alerts"

-----------------------------------------------------------------------------
(* The data the collaborators can return *)

Consumers == {ALERTS_FEATURE_ID, "siem"}

Privileges(r, a) == [read |-> r, all |-> a]

\* An alert type the viewer holds every privilege on, for both consumers.
TypeFull ==
  [id |-> "t1", name |-> "Type one",
   authorizedConsumers |-> [c \in Consumers |-> Privileges(TRUE, TRUE)]]

\* An alert type the viewer may only read under the alerts consumer.
TypeRead ==
  [id |-> "t2", name |-> "Type two",
   authorizedConsumers |-> [c \in {ALERTS_FEATURE_ID} |-> Privileges(TRUE, FALSE)]]

AlertTypeIds == {"t1", "t2", "t3"}

Alert(id, typeId, consumer, actions) ==
  [id |-> id, alertTypeId |-> typeId, consumer |-> consumer, actions |-> actions]

A1 == Alert("a1", "t1", ALERTS_FEATURE_ID, <<"email">>)
A2 == Alert("a2", "t1", ALERTS_FEATURE_ID, <<>>)
A3 == Alert("a3", "t2", ALERTS_FEATURE_ID, <<>>)
A4 == Alert("a4", "t3", "siem", <<"email">>)

AllAlerts == {A1, A2, A3, A4}

AlertIds == {a.id : a \in AllAlerts}

\* What loadAlertTypes can resolve to.
AlertTypesResponses == {<<>>, <<TypeRead>>, <<TypeFull, TypeRead>>}

\* What loadActionTypes can resolve to, and the ids the action type registry has.
ActionTypesResponses == {<<>>, <<"email", "unknown">>}

ActionTypeRegistry == {"email"}

\* What loadAlerts can resolve to: a page of alerts and the total over all pages.
AlertsResponses ==
  { [data |-> <<>>, total |-> 0],
    [data |-> <<A1, A3>>, total |-> DEFAULT_SEARCH_PAGE_SIZE + 2],
    [data |-> <<A2>>, total |-> DEFAULT_SEARCH_PAGE_SIZE + 1] }

SearchStrings == {"", "x"}

\* The key codes a key-up can carry: Enter and Escape.
KeyCodes == {ENTER_KEY, 27}

-----------------------------------------------------------------------------
(* Pure helpers *)

Range(s) == {s[i] : i \in 1..Len(s)}

RemoveAt(s, i) == SubSeq(s, 1, i - 1) \o SubSeq(s, i + 1, Len(s))

RECURSIVE SeqFilter(_, _)
SeqFilter(s, keep) ==
  IF s = <<>> THEN <<>>
  ELSE (IF Head(s) \in keep THEN <<Head(s)>> ELSE <<>>) \o SeqFilter(Tail(s), keep)

\* lodash isEmpty on a string | undefined
isEmptyText(t) == t = <<>> \/ t[1] = ""

\* The index built at lines 103-106: a Map from id to alert type; a later entry
\* with the same id replaces an earlier one.
EmptyIndex == [i \in {} |-> TypeFull]

Index(alertTypes) ==
  IF alertTypes = <<>> THEN EmptyIndex
  ELSE [i \in {alertTypes[k].id : k \in 1..Len(alertTypes)} |->
          LET k == CHOOSE k \in 1..Len(alertTypes) :
                     /\ alertTypes[k].id = i
                     /\ \A j \in k+1..Len(alertTypes) : alertTypes[j].id # i
          IN alertTypes[k]]

\* lib/capabilities hasAllPrivilege: the alert type grants the alert's consumer "all".
hasAllPrivilege(alert, index) ==
  /\ alert.alertTypeId \in DOMAIN index
  /\ alert.consumer \in DOMAIN index[alert.alertTypeId].authorizedConsumers
  /\ index[alert.alertTypeId].authorizedConsumers[alert.consumer].all

\* Lines 505-507 with the no-actions case left out.
isEditableNeedsExecute(alert, alertTypesIndex, canExecute) ==
  hasAllPrivilege(alert, alertTypesIndex) /\ canExecute

\* Lines 505-507.
isEditable(alert, alertTypesIndex, canExecute) ==
  /\ hasAllPrivilege(alert, alertTypesIndex)
  /\ (canExecute \/ (~canExecute /\ ~(Len(alert.actions) > 0)))

\* Lines 500-508, one row.  tagsText is left out: the model's alerts carry no tags.
TableItem(alert, alertTypesIndex, canExecute) ==
  [id |-> alert.id, alertTypeId |-> alert.alertTypeId, consumer |-> alert.consumer,
   actions |-> alert.actions,
   actionsText |-> Len(alert.actions),
   alertType |-> IF alert.alertTypeId \in DOMAIN alertTypesIndex
                   THEN alertTypesIndex[alert.alertTypeId].name
                   ELSE alert.alertTypeId,
   isEditable |-> isEditable(alert, alertTypesIndex, canExecute)]

\* Lines 495-509.
convertAlertsToTableItems(alerts, alertTypesIndex, canExecute) ==
  [i \in 1..Len(alerts) |-> TableItem(alerts[i], alertTypesIndex, canExecute)]

\* Lines 491-493.
RECURSIVE filterAlertsById(_, _)
filterAlertsById(alerts, ids) ==
  IF alerts = <<>> THEN <<>>
  ELSE (IF Head(alerts).id \in Range(ids) THEN <<Head(alerts)>> ELSE <<>>)
         \o filterAlertsById(Tail(alerts), ids)

-----------------------------------------------------------------------------
(* The render: what the current closure holds and what it shows *)

\* The values a render closes over and loadAlertsData reads.
Closure ==
  [alertTypesState |-> alertTypesState, alertsState |-> alertsState, page |-> page,
   searchText |-> searchText, typesFilter |-> typesFilter,
   actionTypesFilter |-> actionTypesFilter]

\* The query a loadAlerts call carries.
Query(q) ==
  [page |-> q.page, searchText |-> q.searchText, typesFilter |-> q.typesFilter,
   actionTypesFilter |-> q.actionTypesFilter]

\* The guard of line 139 left out.
hasAnyAuthorizedAlertTypeUnguarded(c) == TRUE

\* Line 139.
hasAnyAuthorizedAlertType(c) == Cardinality(DOMAIN c.alertTypesState.data) > 0

\* Lines 143-149 with searchText not handed over.
RequestWithoutSearchText(c, then) ==
  [page |-> c.page, searchText |-> <<>>, typesFilter |-> c.typesFilter,
   actionTypesFilter |-> c.actionTypesFilter, alertsState |-> c.alertsState,
   then |-> then]

\* Lines 143-149: the arguments of a loadAlerts call, with what its continuation
\* closes over (alertsState for the catch, page for the reset) and what the caller
\* does once loadAlertsData has returned.
Request(c, then) ==
  [page |-> c.page, searchText |-> c.searchText, typesFilter |-> c.typesFilter,
   actionTypesFilter |-> c.actionTypesFilter, alertsState |-> c.alertsState,
   then |-> then]

\* Lines 138-149, up to the await: the new alertsState and the loadAlerts calls made.
\* cur is the alertsState cell's value when the call runs.
loadAlertsDataStart(c, cur, then) ==
  IF hasAnyAuthorizedAlertType(c)
    THEN [alertsState |-> [c.alertsState EXCEPT !.isLoading = TRUE],
          calls |-> <<Request(c, then)>>]
    ELSE [alertsState |-> cur, calls |-> <<>>]

\* Lines 150-154 with the answer to a superseded query dropped.
alertsStateOnSuccessIfCurrent(req, resp) ==
  IF Query(req) = Query(Closure)
    THEN [isLoading |-> FALSE, data |-> resp.data, totalItemCount |-> resp.total]
    ELSE [alertsState EXCEPT !.isLoading = FALSE]

\* Lines 150-154.
alertsStateOnSuccess(req, resp) ==
  [isLoading |-> FALSE, data |-> resp.data, totalItemCount |-> resp.total]

\* Line 156 with the page test off by one.
shouldResetPageOffByOne(req, resp) == ~(Len(resp.data) > 0) /\ req.page.index > 1

\* Line 156 with the test of the page index left out.
shouldResetPageOnAnyPage(req, resp) == ~(Len(resp.data) > 0)

\* Line 156.
shouldResetPage(req, resp) == ~(Len(resp.data) > 0) /\ req.page.index > 0

\* Line 168.
alertsStateOnFailure(req, cur) == [req.alertsState EXCEPT !.isLoading = FALSE]

\* Lines 257-260 with the read privilege tested in place of all.
authorizedToCreateAnyAlertsByRead ==
  \E id \in DOMAIN alertTypesState.data :
    /\ ALERTS_FEATURE_ID \in DOMAIN alertTypesState.data[id].authorizedConsumers
    /\ alertTypesState.data[id].authorizedConsumers[ALERTS_FEATURE_ID].read

\* Lines 257-260.
authorizedToCreateAnyAlerts ==
  \E id \in DOMAIN alertTypesState.data :
    /\ ALERTS_FEATURE_ID \in DOMAIN alertTypesState.data[id].authorizedConsumers
    /\ alertTypesState.data[id].authorizedConsumers[ALERTS_FEATURE_ID].all

\* Lines 296-300.
authorizedToModifySelectedAlerts ==
  IF Len(selectedIds) > 0
    THEN LET sel == filterAlertsById(alertsState.data, selectedIds)
         IN \A i \in 1..Len(sel) : hasAllPrivilege(sel[i], alertTypesState.data)
    ELSE FALSE

\* Line 305 with the tests of selectedIds.length left out.
bulkControlsShownUnselected ==
  LET sel == filterAlertsById(alertsState.data, selectedIds)
  IN \A i \in 1..Len(sel) : hasAllPrivilege(sel[i], alertTypesState.data)

\* Line 305.
bulkControlsShown == Len(selectedIds) > 0 /\ authorizedToModifySelectedAlerts

\* Lines 358-362.
tableItems ==
  IF alertTypesState.isInitialized = FALSE THEN <<>>
  ELSE convertAlertsToTableItems(alertsState.data, alertTypesState.data, canExecuteActions)

\* Line 376.
tableTotalItemCount ==
  IF alertTypesState.isInitialized = FALSE THEN 0 ELSE alertsState.totalItemCount

\* Line 356.
tableLoading == alertsState.isLoading \/ alertTypesState.isLoading \/ isPerformingAction

\* Lines 391-395.
loadedItems ==
  convertAlertsToTableItems(alertsState.data, alertTypesState.data, canExecuteActions)

\* Lines 397-401.
isFilterApplied ==
  ~(isEmptyText(searchText) /\ typesFilter = <<>> /\ actionTypesFilter = <<>>)

\* Lines 432-444 with the loading test put first.
viewSpinnerFirst ==
  IF alertTypesState.isLoading \/ alertsState.isLoading THEN "spinner"
  ELSE IF Len(loadedItems) > 0 \/ isFilterApplied THEN "table"
  ELSE IF authorizedToCreateAnyAlerts THEN "createPrompt"
  ELSE "noPermissionPrompt"

\* Lines 432-444.
view ==
  IF Len(loadedItems) > 0 \/ isFilterApplied THEN "table"
  ELSE IF alertTypesState.isLoading \/ alertsState.isLoading THEN "spinner"
  ELSE IF authorizedToCreateAnyAlerts THEN "createPrompt"
  ELSE "noPermissionPrompt"

\* The table and its toolbar are on screen: their handlers can be called.
tableShown == mounted /\ view = "table"

\* Lines 280-294: the create button is one of the table's tools.
createButtonShown == tableShown /\ authorizedToCreateAnyAlerts

\* The pages the table's pagination bar offers.
pageCount ==
  (tableTotalItemCount + page.size - 1) \div page.size

\* What a step did: the handler that ran, the loadAlerts calls it made, the toasts it
\* raised and, when it handled the answer to a loadAlerts call, that call's query.
Step(op, calls, toasts) ==
  [op |-> op, calls |-> calls, toasts |-> toasts, answered |-> <<>>]

Answer(op, req, toasts) ==
  [op |-> op, calls |-> <<>>, toasts |-> toasts, answered |-> <<Query(req)>>]

\* Lines 93-96: the alerts effect, run by the render that follows a change of one of
\* its dependencies; c is that render's closure, base the calls still unanswered,
\* step what the handler has done so far.
alertsEffect(c, base, step) ==
  LET r == loadAlertsDataStart(c, c.alertsState, "none")
  IN /\ alertsState' = r.alertsState
     /\ inFlight' = base \o r.calls
     /\ last' = [step EXCEPT !.calls = r.calls]

\* A call of loadAlertsData from the closure c by a callback; the cells it does not
\* write keep their current values.
loadAlertsDataCall(c, then, op) ==
  LET r == loadAlertsDataStart(c, alertsState, then)
  IN /\ alertsState' = r.alertsState
     /\ inFlight' = inFlight \o r.calls
     /\ last' = Step(op, r.calls, <<>>)

-----------------------------------------------------------------------------
(* Construction *)

InitialAlertTypesState == [isLoading |-> FALSE, isInitialized |-> FALSE, data |-> EmptyIndex]

InitialAlertsState == [isLoading |-> FALSE, data |-> <<>>, totalItemCount |-> 0]

InitComponent ==
  /\ canExecuteActions \in BOOLEAN
  /\ mounted = FALSE
  /\ actionTypes = <<>>
  /\ selectedIds = <<>>
  /\ isPerformingAction = FALSE
  /\ page = [index |-> 0, size |-> DEFAULT_SEARCH_PAGE_SIZE]
  /\ searchText = <<>>
  /\ inputText = <<>>
  /\ typesFilter = <<>>
  /\ actionTypesFilter = <<>>
  /\ alertTypesState = InitialAlertTypesState
  /\ alertsState = InitialAlertsState
  /\ alertsToDelete = <<>>
  /\ typesInFlight = <<>>
  /\ actionTypesInFlight = 0
  /\ inFlight = <<>>
  /\ collab = <<>>
  /\ loadAlertTypesCalls = 0
  /\ loadActionTypesCalls = 0
  /\ last = Step("init", <<>>, <<>>)
  /\ interactions = 0

NoConversion == [alerts |-> <<>>, index |-> EmptyIndex]

NotConverted == [done |-> FALSE, items |-> <<>>]

Init ==
  /\ InitComponent
  /\ cvIn = NoConversion
  /\ cvOut = NotConverted

-----------------------------------------------------------------------------
(* Mount and the reference data loaders *)

\* Line 101.
alertTypesStateOnStart(captured) == [captured EXCEPT !.isLoading = TRUE]

\* Lines 103-107 with isInitialized left as it was at construction.
alertTypesStateOnSuccessUninitialized(alertTypes) ==
  [isLoading |-> FALSE, data |-> Index(alertTypes), isInitialized |-> FALSE]

\* Lines 103-107.
alertTypesStateOnSuccess(alertTypes) ==
  [isLoading |-> FALSE, data |-> Index(alertTypes), isInitialized |-> TRUE]

\* Line 115 with the state marked as initialized.
alertTypesStateOnFailureInitialized(captured) ==
  [captured EXCEPT !.isLoading = FALSE, !.isInitialized = TRUE]

\* Line 115.
alertTypesStateOnFailure(captured) == [captured EXCEPT !.isLoading = FALSE]

\* Lines 109-114.
alertTypesFailureToasts == <<"Unable to load alert types">>

\* Lines 127-132.
actionTypesFailureToasts == <<"Unable to load action types">>

\* Lines 160-167 with the error swallowed.
alertsFailureSilent == <<>>

\* Lines 160-167.
alertsFailureToasts == <<"Unable to load alerts">>

\* Lines 93-136: the three effects of the first render, in order, and the alerts
\* effect again for the render that setAlertTypesState (line 101) causes.
Mount ==
  /\ ~mounted
  /\ mounted' = TRUE
  /\ LET first == loadAlertsDataStart(Closure, alertsState, "none")
         started == alertTypesStateOnStart(alertTypesState)
         c2 == [Closure EXCEPT !.alertTypesState = started,
                               !.alertsState = first.alertsState]
         second == loadAlertsDataStart(c2, c2.alertsState, "none")
     IN /\ alertTypesState' = started
        /\ typesInFlight' = Append(typesInFlight, alertTypesState)
        /\ alertsState' = second.alertsState
        /\ inFlight' = inFlight \o first.calls \o second.calls
        /\ last' = Step("mount", first.calls \o second.calls, <<>>)
  /\ loadAlertTypesCalls' = loadAlertTypesCalls + 1
  /\ actionTypesInFlight' = actionTypesInFlight + 1
  /\ loadActionTypesCalls' = loadActionTypesCalls + 1
  /\ UNCHANGED <<pureVars, interactions, canExecuteActions, actionTypes, selectedIds, isPerformingAction, page,
                 searchText, inputText, typesFilter, actionTypesFilter, alertsToDelete,
                 collab>>

\* Lines 102-107: loadAlertTypes resolves.
AlertTypesLoaded(alertTypes) ==
  /\ typesInFlight # <<>>
  /\ typesInFlight' = Tail(typesInFlight)
  /\ alertTypesState' = alertTypesStateOnSuccess(alertTypes)
  /\ alertsEffect([Closure EXCEPT !.alertTypesState = alertTypesState'], inFlight,
                  Step("alertTypesLoaded", <<>>, <<>>))
  /\ UNCHANGED <<pureVars, interactions, canExecuteActions, mounted, actionTypes, selectedIds, isPerformingAction,
                 page, searchText, inputText, typesFilter, actionTypesFilter,
                 alertsToDelete, actionTypesInFlight, collab, loadAlertTypesCalls,
                 loadActionTypesCalls>>

\* Lines 108-116: loadAlertTypes rejects.
AlertTypesFailed ==
  /\ typesInFlight # <<>>
  /\ typesInFlight' = Tail(typesInFlight)
  /\ alertTypesState' = alertTypesStateOnFailure(Head(typesInFlight))
  /\ alertsEffect([Closure EXCEPT !.alertTypesState = alertTypesState'], inFlight,
                  Step("alertTypesFailed", <<>>, alertTypesFailureToasts))
  /\ UNCHANGED <<pureVars, interactions, canExecuteActions, mounted, actionTypes, selectedIds, isPerformingAction,
                 page, searchText, inputText, typesFilter, actionTypesFilter,
                 alertsToDelete, actionTypesInFlight, collab, loadAlertTypesCalls,
                 loadActionTypesCalls>>

\* Lines 124-125: loadActionTypes resolves.
ActionTypesLoaded(result) ==
  /\ actionTypesInFlight > 0
  /\ actionTypesInFlight' = actionTypesInFlight - 1
  /\ actionTypes' = SeqFilter(result, ActionTypeRegistry)
  /\ last' = Step("actionTypesLoaded", <<>>, <<>>)
  /\ UNCHANGED <<pureVars, interactions, canExecuteActions, mounted, selectedIds, isPerformingAction, page,
                 searchText, inputText, typesFilter, actionTypesFilter, alertTypesState,
                 alertsState, alertsToDelete, typesInFlight, inFlight, collab,
                 loadAlertTypesCalls, loadActionTypesCalls>>

\* Lines 126-133: loadActionTypes rejects.
ActionTypesFailed ==
  /\ actionTypesInFlight > 0
  /\ actionTypesInFlight' = actionTypesInFlight - 1
  /\ last' = Step("actionTypesFailed", <<>>, actionTypesFailureToasts)
  /\ UNCHANGED <<pureVars, interactions, canExecuteActions, mounted, actionTypes, selectedIds, isPerformingAction,
                 page, searchText, inputText, typesFilter, actionTypesFilter,
                 alertTypesState, alertsState, alertsToDelete, typesInFlight, inFlight,
                 collab, loadAlertTypesCalls, loadActionTypesCalls>>

-----------------------------------------------------------------------------
(* The alert list loader's continuations *)

\* What the caller of loadAlertsData does once its promise settles: onErrors
\* (lines 413-414) clears the pending-delete list.
afterLoad(req, pending) ==
  IF req.then = "clearAlertsToDelete" THEN <<>> ELSE pending

\* Lines 150-158: the i-th unanswered loadAlerts call resolves with resp.  A page
\* reset (line 157) changes a dependency of the alerts effect, which loads again.
AlertsLoaded(i, resp) ==
  /\ i \in 1..Len(inFlight)
  /\ LET req == inFlight[i]
         base == RemoveAt(inFlight, i)
         loaded == alertsStateOnSuccess(req, resp)
     IN /\ IF shouldResetPage(req, resp)
             THEN /\ page' = [req.page EXCEPT !.index = 0]
                  /\ alertsEffect([Closure EXCEPT !.alertsState = loaded, !.page = page'],
                                  base, Answer("alertsLoaded", req, <<>>))
             ELSE /\ page' = page
                  /\ alertsState' = loaded
                  /\ inFlight' = base
                  /\ last' = Answer("alertsLoaded", req, <<>>)
        /\ alertsToDelete' = afterLoad(req, alertsToDelete)
  /\ UNCHANGED <<pureVars, interactions, canExecuteActions, mounted, actionTypes, selectedIds, isPerformingAction,
                 searchText, inputText, typesFilter, actionTypesFilter, alertTypesState,
                 typesInFlight, actionTypesInFlight, collab, loadAlertTypesCalls,
                 loadActionTypesCalls>>

\* Lines 159-169: the i-th unanswered loadAlerts call rejects.
AlertsFailed(i) ==
  /\ i \in 1..Len(inFlight)
  /\ LET req == inFlight[i]
     IN /\ alertsState' = alertsStateOnFailure(req, alertsState)
        /\ inFlight' = RemoveAt(inFlight, i)
        /\ last' = Answer("alertsFailed", req, alertsFailureToasts)
        /\ alertsToDelete' = afterLoad(req, alertsToDelete)
  /\ UNCHANGED <<pureVars, interactions, canExecuteActions, mounted, actionTypes, selectedIds, isPerformingAction,
                 page, searchText, inputText, typesFilter, actionTypesFilter,
                 alertTypesState, typesInFlight, actionTypesInFlight, collab,
                 loadAlertTypesCalls, loadActionTypesCalls>>

-----------------------------------------------------------------------------
(* The table's and the toolbar's handlers *)

\* Line 329.
InputChange(value) ==
  /\ interactions < MaxInteractions
  /\ interactions' = interactions + 1
  /\ tableShown
  /\ inputText' = <<value>>
  /\ last' = Step("inputChange", <<>>, <<>>)
  /\ UNCHANGED <<pureVars, canExecuteActions, mounted, actionTypes, selectedIds, isPerformingAction,
                 page, searchText, typesFilter, actionTypesFilter, alertTypesState,
                 alertsState, alertsToDelete, typesInFlight, actionTypesInFlight,
                 inFlight, collab, loadAlertTypesCalls, loadActionTypesCalls>>

\* Lines 330-334 with the key code test left out.
searchTextOnAnyKeyUp(keyCode, input, committed) == input

\* Lines 330-334: the committed search text after a key-up.
searchTextOnKeyUp(keyCode, input, committed) ==
  IF keyCode = ENTER_KEY THEN input ELSE committed

\* Lines 330-334.  Setting the cell to the value it holds causes no render.
KeyUp(keyCode) ==
  /\ interactions < MaxInteractions
  /\ interactions' = interactions + 1
  /\ tableShown
  /\ searchText' = searchTextOnKeyUp(keyCode, inputText, searchText)
  /\ IF searchText' # searchText
       THEN alertsEffect([Closure EXCEPT !.searchText = searchText'], inFlight,
                  Step("keyUp", <<>>, <<>>))
       ELSE /\ last' = Step("keyUp", <<>>, <<>>)
            /\ UNCHANGED <<alertsState, inFlight>>
  /\ UNCHANGED <<pureVars, canExecuteActions, mounted, actionTypes, selectedIds, isPerformingAction,
                 page, inputText, typesFilter, actionTypesFilter, alertTypesState,
                 alertsToDelete, typesInFlight, actionTypesInFlight, collab,
                 loadAlertTypesCalls, loadActionTypesCalls>>

\* Lines 263-272: the type filter offers the known alert types; it hands over a
\* new array on every change.
TypesFilterChange(types) ==
  /\ interactions < MaxInteractions
  /\ interactions' = interactions + 1
  /\ tableShown
  /\ Range(types) \subseteq DOMAIN alertTypesState.data
  /\ typesFilter' = types
  /\ alertsEffect([Closure EXCEPT !.typesFilter = types], inFlight,
                  Step("typesFilterChange", <<>>, <<>>))
  /\ UNCHANGED <<pureVars, canExecuteActions, mounted, actionTypes, selectedIds, isPerformingAction,
                 page, searchText, inputText, actionTypesFilter, alertTypesState,
                 alertsToDelete, typesInFlight, actionTypesInFlight, collab,
                 loadAlertTypesCalls, loadActionTypesCalls>>

\* Lines 273-277: the action type filter offers the loaded action types.
ActionTypesFilterChange(ids) ==
  /\ interactions < MaxInteractions
  /\ interactions' = interactions + 1
  /\ tableShown
  /\ Range(ids) \subseteq Range(actionTypes)
  /\ actionTypesFilter' = ids
  /\ alertsEffect([Closure EXCEPT !.actionTypesFilter = ids], inFlight,
                  Step("actionTypesFilterChange", <<>>, <<>>))
  /\ UNCHANGED <<pureVars, canExecuteActions, mounted, actionTypes, selectedIds, isPerformingAction,
                 page, searchText, inputText, typesFilter, alertTypesState,
                 alertsToDelete, typesInFlight, actionTypesInFlight, collab,
                 loadAlertTypesCalls, loadActionTypesCalls>>

\* Lines 384-386: the table hands over a new page object.
PageChange(index) ==
  /\ interactions < MaxInteractions
  /\ interactions' = interactions + 1
  /\ tableShown
  /\ index + 1 <= pageCount
  /\ page' = [index |-> index, size |-> page.size]
  /\ alertsEffect([Closure EXCEPT !.page = page'], inFlight,
                  Step("pageChange", <<>>, <<>>))
  /\ UNCHANGED <<pureVars, canExecuteActions, mounted, actionTypes, selectedIds, isPerformingAction,
                 searchText, inputText, typesFilter, actionTypesFilter, alertTypesState,
                 alertsToDelete, typesInFlight, actionTypesInFlight, collab,
                 loadAlertTypesCalls, loadActionTypesCalls>>

\* Line 379 with every row selectable.
selectableAnyRow(item) == TRUE

\* Line 379: the rows the table lets the user select.
selectable(item) == item.isEditable

selectableIds == {tableItems[i].id : i \in {k \in 1..Len(tableItems) : selectable(tableItems[k])}}

\* The ids of the rows in table order, restricted to chosen.
rowIds(items, chosen) ==
  LET ids == [i \in 1..Len(items) |-> items[i].id] IN SeqFilter(ids, chosen)

\* Lines 380-382.
SelectionChange(chosen) ==
  /\ interactions < MaxInteractions
  /\ interactions' = interactions + 1
  /\ tableShown
  /\ chosen \subseteq selectableIds
  /\ selectedIds' = rowIds(tableItems, chosen)
  /\ last' = Step("selectionChange", <<>>, <<>>)
  /\ UNCHANGED <<pureVars, canExecuteActions, mounted, actionTypes, isPerformingAction, page,
                 searchText, inputText, typesFilter, actionTypesFilter, alertTypesState,
                 alertsState, alertsToDelete, typesInFlight, actionTypesInFlight,
                 inFlight, collab, loadAlertTypesCalls, loadActionTypesCalls>>

-----------------------------------------------------------------------------
(* The collaborators: delete confirmation, quick edit, row actions, alert form. *)
(* Each works asynchronously; the callbacks it was rendered with belong to the  *)
(* render current when its work began, and it calls those when the work ends.   *)

Operation(kind) == <<[kind |-> kind, closure |-> Closure]>>

underWay(kind) == collab # <<>> /\ collab[1].kind = kind

\* Line 250: a row's menu asks to delete that row.
RowSetAlertsToDelete(id) ==
  /\ interactions < MaxInteractions
  /\ interactions' = interactions + 1
  /\ tableShown
  /\ \E i \in 1..Len(tableItems) : tableItems[i].id = id
  /\ alertsToDelete' = <<id>>
  /\ last' = Step("setAlertsToDelete", <<>>, <<>>)
  /\ UNCHANGED <<pureVars, canExecuteActions, mounted, actionTypes, selectedIds, isPerformingAction,
                 page, searchText, inputText, typesFilter, actionTypesFilter,
                 alertTypesState, alertsState, typesInFlight, actionTypesInFlight,
                 inFlight, collab, loadAlertTypesCalls, loadActionTypesCalls>>

\* Lines 309-319: the bulk controls ask to delete the selected items.
BulkSetAlertsToDelete ==
  /\ interactions < MaxInteractions
  /\ interactions' = interactions + 1
  /\ tableShown
  /\ bulkControlsShown
  /\ LET sel == filterAlertsById(alertsState.data, selectedIds)
     IN /\ sel # <<>>
        /\ alertsToDelete' = [i \in 1..Len(sel) |-> sel[i].id]
  /\ last' = Step("setAlertsToDelete", <<>>, <<>>)
  /\ UNCHANGED <<pureVars, canExecuteActions, mounted, actionTypes, selectedIds, isPerformingAction,
                 page, searchText, inputText, typesFilter, actionTypesFilter,
                 alertTypesState, alertsState, typesInFlight, actionTypesInFlight,
                 inFlight, collab, loadAlertTypesCalls, loadActionTypesCalls>>

\* Lines 416-418 with the selection emptied as onDeleted does.
OnCancelClearingSelection ==
  /\ interactions < MaxInteractions
  /\ interactions' = interactions + 1
  /\ alertsToDelete # <<>>
  /\ collab = <<>>
  /\ alertsToDelete' = <<>>
  /\ selectedIds' = <<>>
  /\ last' = Step("onCancel", <<>>, <<>>)
  /\ UNCHANGED <<pureVars, canExecuteActions, mounted, actionTypes, isPerformingAction,
                 page, searchText, inputText, typesFilter, actionTypesFilter,
                 alertTypesState, alertsState, typesInFlight, actionTypesInFlight,
                 inFlight, collab, loadAlertTypesCalls, loadActionTypesCalls>>

\* Lines 416-418.
OnCancel ==
  /\ interactions < MaxInteractions
  /\ interactions' = interactions + 1
  /\ alertsToDelete # <<>>
  /\ collab = <<>>
  /\ alertsToDelete' = <<>>
  /\ last' = Step("onCancel", <<>>, <<>>)
  /\ UNCHANGED <<pureVars, canExecuteActions, mounted, actionTypes, selectedIds, isPerformingAction,
                 page, searchText, inputText, typesFilter, actionTypesFilter,
                 alertTypesState, alertsState, typesInFlight, actionTypesInFlight,
                 inFlight, collab, loadAlertTypesCalls, loadActionTypesCalls>>

\* Lines 419-420: the user confirms; the confirmation calls apiDeleteCall.
DeleteConfirm ==
  /\ interactions < MaxInteractions
  /\ interactions' = interactions + 1
  /\ alertsToDelete # <<>>
  /\ collab = <<>>
  /\ collab' = Operation("delete")
  /\ last' = Step("deleteConfirm", <<>>, <<>>)
  /\ UNCHANGED <<pureVars, canExecuteActions, mounted, actionTypes, selectedIds, isPerformingAction,
                 page, searchText, inputText, typesFilter, actionTypesFilter,
                 alertTypesState, alertsState, alertsToDelete, typesInFlight,
                 actionTypesInFlight, inFlight, loadAlertTypesCalls,
                 loadActionTypesCalls>>

\* Lines 427-429.
alertsStateOnSetIsLoading(c, isLoading) == [c.alertsState EXCEPT !.isLoading = isLoading]

\* Lines 427-429: the confirmation reports that it is (no longer) deleting.
SetIsLoadingState(isLoading) ==
  /\ underWay("delete")
  /\ alertsState' = alertsStateOnSetIsLoading(collab[1].closure, isLoading)
  /\ last' = Step("setIsLoadingState", <<>>, <<>>)
  /\ UNCHANGED <<pureVars, interactions, canExecuteActions, mounted, actionTypes, selectedIds, isPerformingAction,
                 page, searchText, inputText, typesFilter, actionTypesFilter,
                 alertTypesState, alertsToDelete, typesInFlight, actionTypesInFlight,
                 inFlight, collab, loadAlertTypesCalls, loadActionTypesCalls>>

\* Lines 406-410.
OnDeleted ==
  /\ underWay("delete")
  /\ collab' = <<>>
  /\ alertsToDelete' = <<>>
  /\ selectedIds' = <<>>
  /\ loadAlertsDataCall(collab[1].closure, "none", "onDeleted")
  /\ UNCHANGED <<pureVars, interactions, canExecuteActions, mounted, actionTypes, isPerformingAction, page,
                 searchText, inputText, typesFilter, actionTypesFilter, alertTypesState,
                 typesInFlight, actionTypesInFlight, loadAlertTypesCalls,
                 loadActionTypesCalls>>

\* Lines 411-415: the pending-delete list is cleared once loadAlertsData has
\* settled, at once when it made no call.
OnErrors ==
  /\ underWay("delete")
  /\ collab' = <<>>
  /\ loadAlertsDataCall(collab[1].closure, "clearAlertsToDelete", "onErrors")
  /\ alertsToDelete' = IF inFlight' = inFlight THEN <<>> ELSE alertsToDelete
  /\ UNCHANGED <<pureVars, interactions, canExecuteActions, mounted, actionTypes, selectedIds, isPerformingAction,
                 page, searchText, inputText, typesFilter, actionTypesFilter,
                 alertTypesState, typesInFlight, actionTypesInFlight,
                 loadAlertTypesCalls, loadActionTypesCalls>>

\* Line 314.
OnPerformingAction ==
  /\ interactions < MaxInteractions
  /\ interactions' = interactions + 1
  /\ tableShown
  /\ bulkControlsShown
  /\ collab = <<>>
  /\ collab' = Operation("bulk")
  /\ isPerformingAction' = TRUE
  /\ last' = Step("onPerformingAction", <<>>, <<>>)
  /\ UNCHANGED <<pureVars, canExecuteActions, mounted, actionTypes, selectedIds, page, searchText,
                 inputText, typesFilter, actionTypesFilter, alertTypesState, alertsState,
                 alertsToDelete, typesInFlight, actionTypesInFlight, inFlight,
                 loadAlertTypesCalls, loadActionTypesCalls>>

\* Lines 315-318.
OnActionPerformed ==
  /\ underWay("bulk")
  /\ collab' = <<>>
  /\ loadAlertsDataCall(collab[1].closure, "none", "onActionPerformed")
  /\ isPerformingAction' = FALSE
  /\ UNCHANGED <<pureVars, interactions, canExecuteActions, mounted, actionTypes, selectedIds, page, searchText,
                 inputText, typesFilter, actionTypesFilter, alertTypesState,
                 alertsToDelete, typesInFlight, actionTypesInFlight,
                 loadAlertTypesCalls, loadActionTypesCalls>>

\* Lines 246-251: a row's menu starts changing its alert.
RowActionStart ==
  /\ interactions < MaxInteractions
  /\ interactions' = interactions + 1
  /\ tableShown
  /\ Len(tableItems) > 0
  /\ collab = <<>>
  /\ collab' = Operation("row")
  /\ last' = Step("rowActionStart", <<>>, <<>>)
  /\ UNCHANGED <<pureVars, canExecuteActions, mounted, actionTypes, selectedIds, isPerformingAction,
                 page, searchText, inputText, typesFilter, actionTypesFilter,
                 alertTypesState, alertsState, alertsToDelete, typesInFlight,
                 actionTypesInFlight, inFlight, loadAlertTypesCalls,
                 loadActionTypesCalls>>

\* Line 249.
OnAlertChanged ==
  /\ underWay("row")
  /\ collab' = <<>>
  /\ loadAlertsDataCall(collab[1].closure, "none", "onAlertChanged")
  /\ UNCHANGED <<pureVars, interactions, canExecuteActions, mounted, actionTypes, selectedIds, isPerformingAction,
                 page, searchText, inputText, typesFilter, actionTypesFilter,
                 alertTypesState, alertsToDelete, typesInFlight, actionTypesInFlight,
                 loadAlertTypesCalls, loadActionTypesCalls>>

\* Lines 286, 441, 459-463: the alert form, opened from the create button or the
\* create prompt, starts saving an alert.
SaveAlertStart ==
  /\ interactions < MaxInteractions
  /\ interactions' = interactions + 1
  /\ mounted
  /\ authorizedToCreateAnyAlerts
  /\ view \in {"table", "createPrompt"}
  /\ collab = <<>>
  /\ collab' = Operation("add")
  /\ last' = Step("saveAlertStart", <<>>, <<>>)
  /\ UNCHANGED <<pureVars, canExecuteActions, mounted, actionTypes, selectedIds, isPerformingAction,
                 page, searchText, inputText, typesFilter, actionTypesFilter,
                 alertTypesState, alertsState, alertsToDelete, typesInFlight,
                 actionTypesInFlight, inFlight, loadAlertTypesCalls,
                 loadActionTypesCalls>>

\* Line 447: the alert form calls reloadAlerts.
ReloadAlerts ==
  /\ underWay("add")
  /\ collab' = <<>>
  /\ loadAlertsDataCall(collab[1].closure, "none", "reloadAlerts")
  /\ UNCHANGED <<pureVars, interactions, canExecuteActions, mounted, actionTypes, selectedIds, isPerformingAction,
                 page, searchText, inputText, typesFilter, actionTypesFilter,
                 alertTypesState, alertsToDelete, typesInFlight, actionTypesInFlight,
                 loadAlertTypesCalls, loadActionTypesCalls>>

-----------------------------------------------------------------------------
(* The component's specification *)

TypesFilters == {<<>>} \cup {<<id>> : id \in AlertTypeIds}

ActionTypesFilters == {<<>>} \cup {<<id>> : id \in ActionTypeRegistry}

Next ==
  \/ Mount
  \/ \E alertTypes \in AlertTypesResponses : AlertTypesLoaded(alertTypes)
  \/ AlertTypesFailed
  \/ \E result \in ActionTypesResponses : ActionTypesLoaded(result)
  \/ ActionTypesFailed
  \/ \E i \in DOMAIN inFlight, resp \in AlertsResponses : AlertsLoaded(i, resp)
  \/ \E i \in DOMAIN inFlight : AlertsFailed(i)
  \/ \E value \in SearchStrings : InputChange(value)
  \/ \E keyCode \in KeyCodes : KeyUp(keyCode)
  \/ \E types \in TypesFilters : TypesFilterChange(types)
  \/ \E ids \in ActionTypesFilters : ActionTypesFilterChange(ids)
  \/ \E index \in 0..1 : PageChange(index)
  \/ \E chosen \in SUBSET AlertIds : SelectionChange(chosen)
  \/ \E id \in AlertIds : RowSetAlertsToDelete(id)
  \/ BulkSetAlertsToDelete
  \/ OnCancel
  \/ DeleteConfirm
  \/ \E isLoading \in BOOLEAN : SetIsLoadingState(isLoading)
  \/ OnDeleted
  \/ OnErrors
  \/ OnPerformingAction
  \/ OnActionPerformed
  \/ RowActionStart
  \/ OnAlertChanged
  \/ SaveAlertStart
  \/ ReloadAlerts

Spec == Init /\ [][Next]_vars

\* A request that is outstanding is answered: a loader resolves or rejects, or a
\* collaborator ends its work and calls back.
Answered ==
  \/ \E alertTypes \in AlertTypesResponses : AlertTypesLoaded(alertTypes)
  \/ AlertTypesFailed
  \/ \E result \in ActionTypesResponses : ActionTypesLoaded(result)
  \/ ActionTypesFailed
  \/ \E i \in DOMAIN inFlight, resp \in AlertsResponses : AlertsLoaded(i, resp)
  \/ \E i \in DOMAIN inFlight : AlertsFailed(i)
  \/ OnDeleted
  \/ OnErrors
  \/ OnActionPerformed
  \/ OnAlertChanged
  \/ ReloadAlerts

\* The component when every outstanding request is answered in the end.
SpecLive == Init /\ [][Next]_vars /\ WF_vars(Answered)

-----------------------------------------------------------------------------
(* convertAlertsToTableItems on its own: every input within the bounds *)

RECURSIVE SeqsUpTo(_, _)
SeqsUpTo(S, n) ==
  IF n = 0 THEN {<<>>}
  ELSE LET shorter == SeqsUpTo(S, n - 1)
       IN shorter \cup {Append(q, x) : q \in shorter, x \in S}

ConvertInputs ==
  [alerts : SeqsUpTo(AllAlerts, MaxAlerts),
   index : {EmptyIndex, Index(<<TypeFull>>), Index(<<TypeRead>>),
            Index(<<TypeFull, TypeRead>>)}]

InitConvert ==
  /\ InitComponent
  /\ cvIn \in ConvertInputs
  /\ cvOut = NotConverted

\* Lines 391-395: the call of convertAlertsToTableItems.
Convert ==
  /\ ~cvOut.done
  /\ cvOut' = [done |-> TRUE,
               items |-> convertAlertsToTableItems(cvIn.alerts, cvIn.index,
                                                   canExecuteActions)]
  /\ UNCHANGED <<compVars, cvIn>>

NextConvert == Convert

SpecConvert == InitConvert /\ [][NextConvert]_vars

-----------------------------------------------------------------------------
(* Properties *)

knownAlertTypes == Cardinality(DOMAIN alertTypesState.data) > 0

\* C1: while the alert-type index is empty no loadAlerts call is made and none is
\* outstanding, whatever handlers have run.
C1_NoFetchWithoutAlertTypes ==
  ~knownAlertTypes => (last.calls = <<>> /\ inFlight = <<>>)

\* The alert-type loader has failed, the alerts effect has run again, and the index
\* is empty.
C1_Witness ==
  /\ last.op = "alertTypesFailed"
  /\ ~knownAlertTypes
  /\ loadAlertTypesCalls = 1

\* C2: when a loadAlerts call made for a page index above 0 resolves with an empty
\* data array, the page index becomes 0 and one new loadAlerts call for page 0 is
\* made; any other resolved loadAlerts call leaves the page as it is.
C2_PageResetOnEmptyPage ==
  [][\A i \in DOMAIN inFlight, resp \in AlertsResponses :
       AlertsLoaded(i, resp) =>
         IF Len(resp.data) = 0 /\ inFlight[i].page.index > 0
           THEN /\ page'.index = 0
                /\ Len(last'.calls) = 1
                /\ last'.calls[1].page.index = 0
                /\ inFlight'[Len(inFlight')] = last'.calls[1]
           ELSE /\ page' = page
                /\ last'.calls = <<>>]_vars

\* An empty answer to a call for page 1 has just reset the page and loaded again.
C2_Witness ==
  /\ last.op = "alertsLoaded"
  /\ last.answered[1].page.index > 0
  /\ alertsState.data = <<>>
  /\ page.index = 0
  /\ Len(last.calls) = 1

\* C3: a loadAlerts call is never cancelled (a step that handles no answer keeps
\* every unanswered call), and every resolved call, whatever its place among the
\* unanswered ones and whatever the query is by then, replaces the alert list and
\* the total count.
C3_NoCancellationNoOrdering ==
  /\ [][last'.answered = <<>> =>
          /\ Len(inFlight') >= Len(inFlight)
          /\ SubSeq(inFlight', 1, Len(inFlight)) = inFlight]_vars
  /\ [][\A i \in DOMAIN inFlight, resp \in AlertsResponses :
          AlertsLoaded(i, resp) =>
            /\ alertsState'.data = resp.data
            /\ alertsState'.totalItemCount = resp.total]_vars

\* The list on display is the answer to a query that is no longer the current one,
\* and nothing is outstanding that would replace it.
C3_Witness ==
  /\ last.op = "alertsLoaded"
  /\ last.answered[1] # Query(Closure)
  /\ alertsState.data # <<>>
  /\ inFlight = <<>>

\* C4: when a loadAlerts call rejects, an error toast is raised, the alerts loading
\* flag becomes false, and the alert list and the total count stay what they were
\* just before the rejection was handled.
C4_FailureKeepsDisplayedData ==
  [][\A i \in DOMAIN inFlight :
       AlertsFailed(i) =>
         /\ last'.toasts = <<"Unable to load alerts">>
         /\ alertsState'.isLoading = FALSE
         /\ alertsState'.data = alertsState.data
         /\ alertsState'.totalItemCount = alertsState.totalItemCount]_vars

\* C5: onDeleted and onErrors leave the pending-delete list empty (onErrors once its
\* reload has settled) and make a loadAlerts call when an alert type is known; they
\* do not change the alert list themselves.
C5_DeleteFlowOnlyReloads ==
  /\ [][OnDeleted => alertsToDelete' = <<>> /\ (knownAlertTypes => Len(last'.calls) = 1)]_vars
  /\ [][OnErrors =>
          /\ knownAlertTypes => Len(last'.calls) = 1
          /\ \/ alertsToDelete' = <<>>
             \/ last'.calls[1].then = "clearAlertsToDelete"]_vars
  /\ [][\A i \in DOMAIN inFlight, resp \in AlertsResponses :
          (AlertsLoaded(i, resp) \/ AlertsFailed(i)) /\ inFlight[i].then = "clearAlertsToDelete"
            => alertsToDelete' = <<>>]_vars
  /\ [][(OnDeleted \/ OnErrors) => alertsState'.data = alertsState.data]_vars

\* C6: while an alert type is known, a step that changes the page, the committed
\* search text, a filter or the alert-type state makes one loadAlerts call, and the
\* call carries the page, search text and filters as they are after the change.
C6_QueryChangeRefetches ==
  [][(/\ Cardinality(DOMAIN alertTypesState'.data) > 0
      /\ \/ page' # page
         \/ searchText' # searchText
         \/ typesFilter' # typesFilter
         \/ actionTypesFilter' # actionTypesFilter
         \/ alertTypesState' # alertTypesState)
     => /\ Len(last'.calls) = 1
        /\ inFlight'[Len(inFlight')] = last'.calls[1]
        /\ Query(last'.calls[1]) =
             [page |-> page', searchText |-> searchText', typesFilter |-> typesFilter',
              actionTypesFilter |-> actionTypesFilter']]_vars

\* A search text has just been committed and the call made carries it.
C6_Witness ==
  /\ last.op = "keyUp"
  /\ searchText = <<"x">>
  /\ Len(last.calls) = 1
  /\ last.calls[1].searchText = <<"x">>

\* C7: a change of the input buffer changes nothing else and makes no call; a key-up
\* with key code 13 sets the committed search text to the input buffer, a key-up
\* with another key code leaves it as it is.
C7_SearchCommitsOnEnterOnly ==
  /\ [][\A value \in SearchStrings :
          InputChange(value) =>
            /\ inputText' = <<value>>
            /\ UNCHANGED <<searchText, page, typesFilter, actionTypesFilter,
                           alertsState, alertTypesState, inFlight, selectedIds,
                           alertsToDelete>>
            /\ last'.calls = <<>>]_vars
  /\ [][\A keyCode \in KeyCodes :
          KeyUp(keyCode) =>
            /\ keyCode = 13 => searchText' = inputText
            /\ keyCode # 13 => searchText' = searchText /\ last'.calls = <<>>]_vars
  /\ [][searchText' # searchText => last'.op = "keyUp"]_vars

\* The buffer holds a text the user has typed and not committed.
C7_Witness ==
  /\ last.op = "keyUp"
  /\ inputText = <<"x">>
  /\ searchText # inputText

\* C8: isEditable of every converted row is true exactly when hasAllPrivilege holds
\* for the alert against its alert type and the execute-actions capability is
\* present or the alert has no actions.
C8_IsEditable ==
  cvOut.done =>
    /\ Len(cvOut.items) = Len(cvIn.alerts)
    /\ \A i \in 1..Len(cvIn.alerts) :
         cvOut.items[i].isEditable <=>
           /\ hasAllPrivilege(cvIn.alerts[i], cvIn.index)
           /\ (canExecuteActions \/ Len(cvIn.alerts[i].actions) = 0)

\* A row was found editable without the capability, and another not editable for
\* its actions alone.
C8_Witness ==
  /\ cvOut.done
  /\ ~canExecuteActions
  /\ Len(cvOut.items) = 2
  /\ cvOut.items[1].isEditable
  /\ ~cvOut.items[2].isEditable
  /\ hasAllPrivilege(cvIn.alerts[2], cvIn.index)

\* C9: loadAlertTypes and loadActionTypes are each called once per mount; handling
\* a rejection raises exactly one toast, calls no loader again and leaves the
\* loading flag of the loader that failed false.
C9_NoAutomaticRetry ==
  /\ loadAlertTypesCalls = (IF mounted THEN 1 ELSE 0)
  /\ loadActionTypesCalls = (IF mounted THEN 1 ELSE 0)
  /\ Len(typesInFlight) <= 1 /\ actionTypesInFlight <= 1
  /\ last.op = "alertTypesFailed" =>
       /\ last.toasts = <<"Unable to load alert types">>
       /\ typesInFlight = <<>>
       /\ last.calls = <<>>
       /\ ~alertTypesState.isLoading
  /\ last.op = "actionTypesFailed" =>
       /\ last.toasts = <<"Unable to load action types">>
       /\ actionTypesInFlight = 0
       /\ last.calls = <<>>
  /\ last.op = "alertsFailed" =>
       /\ last.toasts = <<"Unable to load alerts">>
       /\ last.calls = <<>>
       /\ ~alertsState.isLoading
  /\ last.toasts # <<>> => last.op \in {"alertTypesFailed", "actionTypesFailed", "alertsFailed"}

\* A loadAlerts call has just been rejected while the table is on screen.
C9_Witness ==
  /\ last.op = "alertsFailed"
  /\ view = "table"
  /\ inFlight = <<>>

anyItemsOrActiveFilter ==
  \/ Len(alertsState.data) > 0
  \/ searchText \notin {<<>>, <<"">>}
  \/ typesFilter # <<>>
  \/ actionTypesFilter # <<>>

anyLoadingFlag == alertTypesState.isLoading \/ alertsState.isLoading

mayCreateAnAlert ==
  \E id \in DOMAIN alertTypesState.data :
    LET consumers == alertTypesState.data[id].authorizedConsumers
    IN "alerts" \in DOMAIN consumers /\ consumers["alerts"].all

alertTypesLoaderFailed ==
  mounted /\ typesInFlight = <<>> /\ ~alertTypesState.isInitialized

\* C11: when loadAlertTypes rejects, the toast "Unable to load alert types" is
\* raised, the alert-type map stays empty and isInitialized stays false; from then
\* on the alert types never load, and neither the table nor the create button is
\* shown.
C11_AlertTypesFailure ==
  /\ [][AlertTypesFailed =>
          /\ last'.toasts = <<"Unable to load alert types">>
          /\ alertTypesState'.data = EmptyIndex
          /\ ~alertTypesState'.isInitialized
          /\ alertTypesLoaderFailed']_vars
  /\ [][alertTypesLoaderFailed => alertTypesLoaderFailed']_vars
  /\ [](alertTypesLoaderFailed =>
          /\ alertTypesState.data = EmptyIndex
          /\ view # "table"
          /\ ~createButtonShown)

\* Some steps after loadAlertTypes was rejected, with the action types loaded, the
\* view is the permission prompt.
C11_Witness ==
  /\ alertTypesLoaderFailed
  /\ last.op = "actionTypesLoaded"
  /\ actionTypes # <<>>
  /\ view = "noPermissionPrompt"

\* C12: while no known alert type grants "all" to the alerts consumer, the create
\* button is not rendered and the create prompt is not shown; with no item loaded,
\* no filter applied and no loading flag set, the view is the permission prompt.
C12_NoCreateWithoutPrivilege ==
  ~mayCreateAnAlert =>
    /\ ~createButtonShown
    /\ view # "createPrompt"
    /\ (~anyItemsOrActiveFilter /\ ~anyLoadingFlag) => view = "noPermissionPrompt"

\* Alert types are known, none grants "all", and the alerts loaded are none.
C12_Witness ==
  /\ knownAlertTypes
  /\ ~mayCreateAnAlert
  /\ last.op = "alertsLoaded"
  /\ alertsState.data = <<>>
  /\ view = "noPermissionPrompt"

\* C13: the bulk controls are shown only when at least one id is selected and every
\* alert with a selected id, in the current alert list or not, passes
\* hasAllPrivilege against the alert-type index.
C13_BulkControlsOnlyWhenAuthorized ==
  bulkControlsShown =>
    /\ Len(selectedIds) > 0
    /\ \A k \in 1..Len(selectedIds) :
         /\ \A i \in 1..Len(alertsState.data) :
              alertsState.data[i].id = selectedIds[k]
                => hasAllPrivilege(alertsState.data[i], alertTypesState.data)
         /\ \A alert \in AllAlerts :
              alert.id = selectedIds[k] => hasAllPrivilege(alert, alertTypesState.data)

\* The bulk controls are shown for a selection that a reload has removed from the
\* alert list.
C13_Witness ==
  /\ bulkControlsShown
  /\ alertsState.data # <<>>
  /\ \A k \in 1..Len(selectedIds) :
       \A i \in 1..Len(alertsState.data) : alertsState.data[i].id # selectedIds[k]

\* C14: whenever the selection changes, every id it then holds is the id of a row
\* the table showed with isEditable true when the change was made; no step other
\* than a selection change puts an id into the selection.
C14_SelectionOnlyEditable ==
  /\ [][selectedIds' # selectedIds =>
          \A k \in 1..Len(selectedIds') :
            \E i \in 1..Len(tableItems) :
              /\ tableItems[i].id = selectedIds'[k]
              /\ tableItems[i].isEditable]_vars
  /\ [][(selectedIds' # selectedIds /\ selectedIds' # <<>>)
          => last'.op = "selectionChange"]_vars

\* A row has just been selected while another row of the table is not editable.
C14_Witness ==
  /\ last.op = "selectionChange"
  /\ selectedIds # <<>>
  /\ \E i \in 1..Len(tableItems) : ~tableItems[i].isEditable

quiescent ==
  /\ inFlight = <<>>
  /\ typesInFlight = <<>>
  /\ ~alertsState.isLoading
  /\ ~alertTypesState.isLoading

\* C15: when every outstanding request is answered in the end, the component comes
\* to rest with no loadAlerts or loadAlertTypes call outstanding and both loading
\* flags false; the answer to a loadAlerts call makes at most one new call, for
\* page 0, the answer to a call for page 0 makes none, and no answer leaves more
\* calls outstanding than before.
C15_Quiescence ==
  /\ <>[]quiescent
  /\ [][\A i \in DOMAIN inFlight, resp \in AlertsResponses :
          AlertsLoaded(i, resp) =>
            /\ Len(last'.calls) <= 1
            /\ Len(last'.calls) = 1 => last'.calls[1].page.index = 0
            /\ inFlight[i].page.index = 0 => last'.calls = <<>>
            /\ Len(inFlight') <= Len(inFlight)]_vars

\* The user has stopped acting and the last answer has left the component at rest.
C15_Witness ==
  /\ mounted
  /\ interactions = MaxInteractions
  /\ last.op = "alertsLoaded"
  /\ collab = <<>>
  /\ actionTypesInFlight = 0
  /\ quiescent

\* C16: alertsState.isLoading is true in every state in which a loadAlerts call is
\* outstanding.
C16_LoadingWhileInFlight ==
  inFlight # <<>> => alertsState.isLoading

\* C17: a non-empty alert-type index implies isInitialized; a loadAlerts call is
\* made or outstanding, and the alert list is non-empty, only when isInitialized
\* holds; the table is handed every alert of the list.
C17_InitializedWithIndex ==
  /\ knownAlertTypes => alertTypesState.isInitialized
  /\ (last.calls # <<>> \/ inFlight # <<>>) => alertTypesState.isInitialized
  /\ alertsState.data # <<>> => alertTypesState.isInitialized
  /\ Len(tableItems) = Len(alertsState.data)
  /\ tableTotalItemCount = alertsState.totalItemCount

\* Alerts are on display and a further loadAlerts call is outstanding.
C17_Witness ==
  /\ alertTypesState.isInitialized
  /\ knownAlertTypes
  /\ Len(tableItems) > 0
  /\ inFlight # <<>>

\* C18: the selection changes only in a selection change and in onDeleted, which
\* empties it and the pending-delete list; a page change, a key-up, a filter
\* change, an answer to loadAlerts, a reload, onErrors and onCancel leave it as it
\* is; onCancel changes the pending-delete list alone and makes no loadAlerts call.
C18_SelectionFrame ==
  /\ [][selectedIds' # selectedIds => last'.op \in {"selectionChange", "onDeleted"}]_vars
  /\ [][OnDeleted => selectedIds' = <<>> /\ alertsToDelete' = <<>>]_vars
  /\ [][(\/ \E index \in 0..1 : PageChange(index)
         \/ \E keyCode \in KeyCodes : KeyUp(keyCode)
         \/ \E types \in TypesFilters : TypesFilterChange(types)
         \/ \E ids \in ActionTypesFilters : ActionTypesFilterChange(ids)
         \/ \E i \in DOMAIN inFlight, resp \in AlertsResponses : AlertsLoaded(i, resp)
         \/ \E i \in DOMAIN inFlight : AlertsFailed(i)
         \/ ReloadAlerts
         \/ OnAlertChanged
         \/ OnActionPerformed
         \/ OnErrors
         \/ OnCancel)
        => selectedIds' = selectedIds]_vars
  /\ [][OnCancel =>
          /\ alertsToDelete' = <<>>
          /\ last'.calls = <<>>
          /\ UNCHANGED <<selectedIds, page, searchText, inputText, typesFilter,
                         actionTypesFilter, alertTypesState, alertsState, actionTypes,
                         isPerformingAction, inFlight>>]_vars

\* A delete has just been cancelled while rows are selected.
C18_Witness ==
  /\ last.op = "onCancel"
  /\ selectedIds # <<>>
  /\ alertsToDelete = <<>>

====
